---- MODULE Spec2Model ----
(***************************************************************************)
(* Model of the hackathon deadline tracker: the urgency engine             *)
(* (src/src/urgency.py), the notification state store (src/src/state.py),  *)
(* the notifier (src/src/notifier.py) and the orchestrator                 *)
(* (src/src/main.py).                                                      *)
(*                                                                         *)
(* Time is counted in ticks, TicksPerHour ticks to the hour, so that       *)
(* fractional hours (3.5h) exist.  A datetime is the tick of its instant,  *)
(* a duration in hours is a number of ticks.                               *)
(***************************************************************************)
EXTENDS Integers, Sequences, FiniteSets, TLC

VARIABLES
    now,         \* datetime.now(): the wall clock, in ticks
    file,        \* data/state.json on disk: [kind, data]
    mgr,         \* the StateManager object: "none", "ready", or "raised" (constructor threw)
    state,       \* StateManager.state: url -> [kind, at, level, name]
    probe,       \* last call made on a component directly, with its result
    prev,        \* the call made before it
    pc,          \* where main() is: "idle" between runs
    cfg,         \* main(): config['dry_run'], force, config['top_n']
    hackathons,  \* main(): what scrape_devpost returned
    urgent,      \* main(): urgent_hackathons
    to_notify,   \* main(): to_notify
    sends,       \* the send_notification calls of this run: [url, level, posted, ok]
    result,      \* main(): what send_notifications returned
    file0,       \* the state file as it was when the run started
    sentAt,      \* url -> tick of the last live post of a non-forced run, or Never
    failedAt,    \* url -> tick of the last such post that failed, or Never
    log,         \* send_batch: the send_notification and time.sleep calls, in order
    exit_code,   \* exit status of the process, Running while there is none
    pages,       \* what the profile site answers for page 1, 2, ...
    scrape,      \* last call made on the scraper directly, with its result
    links        \* the challenge links of the page handed to extract_hackathons

runVars == <<pc, cfg, hackathons, urgent, to_notify, sends, result, file0, sentAt, failedAt,
             log, exit_code>>

scrapeVars == <<pages, scrape, links>>

vars == <<now, file, mgr, state, probe, prev, pc, cfg, hackathons, urgent,
          to_notify, sends, result, file0, sentAt, failedAt, log, exit_code, pages, scrape,
          links>>

----------------------------------------------------------------------------
(* Bounds of the model *)

TicksPerHour == 2
MaxProbeHours == 170

----------------------------------------------------------------------------
(* urgency.py: UrgencyEngine *)

CRITICAL_THRESHOLD == 3
HIGH_THRESHOLD == 12
MEDIUM_THRESHOLD == 48
LOW_THRESHOLD == 168

Levels == {"CRITICAL", "HIGH", "MEDIUM", "LOW", "IGNORE"}

\* INTERVALS, in hours
INTERVALS ==
    [l \in Levels |->
        CASE l = "CRITICAL" -> 1
          [] l = "HIGH"     -> 3
          [] l = "MEDIUM"   -> 12
          [] l = "LOW"      -> 24
          [] l = "IGNORE"   -> 168]

Max(a, b) == IF a >= b THEN a ELSE b
Min(a, b) == IF a <= b THEN a ELSE b

\* hours_remaining in ticks; deadline and the clock in ticks
calculate_hours_remaining_unclamped(deadline, t) == deadline - t

\* max(0, delta.total_seconds() / 3600), in ticks
calculate_hours_remaining(deadline, t) == Max(0, deadline - t)

get_alert_level_strict(h) ==
    IF h < CRITICAL_THRESHOLD * TicksPerHour THEN "CRITICAL"
    ELSE IF h < HIGH_THRESHOLD * TicksPerHour THEN "HIGH"
    ELSE IF h < MEDIUM_THRESHOLD * TicksPerHour THEN "MEDIUM"
    ELSE IF h < LOW_THRESHOLD * TicksPerHour THEN "LOW"
    ELSE "IGNORE"

\* h is hours_remaining in ticks
\* the bands of HIGH and MEDIUM the other way round
get_alert_level_swapped(h) ==
    IF h <= CRITICAL_THRESHOLD * TicksPerHour THEN "CRITICAL"
    ELSE IF h <= HIGH_THRESHOLD * TicksPerHour THEN "MEDIUM"
    ELSE IF h <= MEDIUM_THRESHOLD * TicksPerHour THEN "HIGH"
    ELSE IF h <= LOW_THRESHOLD * TicksPerHour THEN "LOW"
    ELSE "IGNORE"

get_alert_level(h) ==
    IF h <= CRITICAL_THRESHOLD * TicksPerHour THEN "CRITICAL"
    ELSE IF h <= HIGH_THRESHOLD * TicksPerHour THEN "HIGH"
    ELSE IF h <= MEDIUM_THRESHOLD * TicksPerHour THEN "MEDIUM"
    ELSE IF h <= LOW_THRESHOLD * TicksPerHour THEN "LOW"
    ELSE "IGNORE"

get_notification_interval(level) == INTERVALS[level]

\* prize_score = min(prize_amount / 10000, 1.0) * 20, 0 when there is none.
\* Prize amounts of the model are multiples of 500, for which this is an
\* integer.
prize_score(prize_amount) == (Min(prize_amount, 10000) * 20) \div 10000

\* the time score without the floor of one hour (of one tick instead)
calculate_priority_score_no_floor(h, prize_amount, tag_match_score) ==
    LET m == Max(h, 1)
    IN  [num |-> 50 * TicksPerHour + (prize_score(prize_amount) + 30 * tag_match_score) * m,
         den |-> m]

\* calculate_priority_score:
\* 50 / max(hours_remaining, 1) + prize_score + 30 * tag_match_score, as the
\* exact fraction num/den (h in ticks, tag_match_score 0 or 1)
calculate_priority_score(h, prize_amount, tag_match_score) ==
    LET m == Max(h, TicksPerHour)
    IN  [num |-> 50 * TicksPerHour + (prize_score(prize_amount) + 30 * tag_match_score) * m,
         den |-> m]

ScoreGeq(a, b) == a.num * b.den >= b.num * a.den

----------------------------------------------------------------------------
(* Direct calls on the urgency engine, as test_components.py makes them *)

URLs == {"u1", "u2"}

Name(url) == IF url = "u1" THEN "Hack One" ELSE "Hack Two"

EmptyMap == [u \in {} |-> 0]

\* the lists of at most n elements of S
RECURSIVE SeqsUpTo(_, _)
SeqsUpTo(S, n) ==
    IF n = 0 THEN {<<>>}
    ELSE LET shorter == SeqsUpTo(S, n - 1)
         IN  shorter \cup {Append(s, x) : s \in {q \in shorter : Len(q) = n - 1}, x \in S}

NoScore == [num |-> 0, den |-> 1]

NoProbe ==
    [op |-> "none", url |-> "u1", h |-> 0, level |-> "IGNORE", interval |-> 0,
     t |-> 0, result |-> FALSE, removed |-> {}, wrote |-> FALSE,
     deadline |-> 0, hours |-> 0,
     h2 |-> 0, prize |-> 0, tag |-> 0, score |-> NoScore, score2 |-> NoScore]

Never == 0 - 1

NoFile == [kind |-> "missing", data |-> EmptyMap]
NoConfig == [dry_run |-> FALSE, force |-> FALSE, top_n |-> 0, config |-> "ok"]
NoResult == [sent |-> 0, failed |-> 0]
Running == 0 - 1
NoScrape ==
    [op |-> "none", max_pages |-> 0, all |-> <<>>, unique |-> <<>>,
     out |-> <<>>, again |-> <<>>]

\* no call has been made on the scraper
ScrapeIdle ==
    /\ pages = <<>>
    /\ scrape = NoScrape
    /\ links = <<>>

\* main() is not running
RunIdle ==
    /\ pc = "idle"
    /\ cfg = NoConfig
    /\ hackathons = <<>>
    /\ urgent = <<>>
    /\ to_notify = <<>>
    /\ sends = <<>>
    /\ result = NoResult
    /\ file0 = NoFile
    /\ sentAt = [u \in URLs |-> Never]
    /\ failedAt = [u \in URLs |-> Never]
    /\ log = <<>>
    /\ exit_code = Running

InitUrgency ==
    /\ RunIdle
    /\ ScrapeIdle
    /\ now = 0
    /\ file = NoFile
    /\ mgr = "none"
    /\ state = EmptyMap
    /\ prev = NoProbe
    /\ \E h \in 0..(MaxProbeHours * TicksPerHour) :
          probe = [NoProbe EXCEPT !.op = "input", !.h = h]

GetAlertLevel ==
    /\ probe.op = "input"
    /\ probe' = [probe EXCEPT !.op = "get_alert_level",
                              !.level = get_alert_level(probe.h),
                              !.interval = get_notification_interval(get_alert_level(probe.h))]
    /\ UNCHANGED <<scrapeVars, now, file, mgr, state, prev, runVars>>

\* the prize amounts the scorer is called with
Prizes == {0, 5000, 10000, 20000}

\* the distances between the hours_remaining of two scored records
MaxGap == 3

\* calculate_priority_score, called for two records that differ in
\* hours_remaining only
CalculatePriorityScore ==
    /\ probe.op = "input"
    /\ \E d \in 1..MaxGap, p \in Prizes, g \in 0..1 :
          probe' = [probe EXCEPT !.op = "calculate_priority_score",
                                 !.h2 = probe.h + d, !.prize = p, !.tag = g,
                                 !.score = calculate_priority_score(probe.h, p, g),
                                 !.score2 = calculate_priority_score(probe.h + d, p, g)]
    /\ UNCHANGED <<scrapeVars, now, file, mgr, state, prev, runVars>>

\* calculate_hours_remaining, called with a deadline probe.h after or before
\* the current time
CalculateHoursRemaining ==
    /\ probe.op = "input"
    /\ \E d \in {now + probe.h, now - probe.h} :
          probe' = [probe EXCEPT !.op = "calculate_hours_remaining",
                                 !.deadline = d, !.t = now,
                                 !.hours = calculate_hours_remaining(d, now)]
    /\ UNCHANGED <<scrapeVars, now, file, mgr, state, prev, runVars>>

NextUrgency == GetAlertLevel \/ CalculatePriorityScore \/ CalculateHoursRemaining

SpecUrgency == InitUrgency /\ [][NextUrgency]_vars

\* C1: for every hours_remaining h >= 0 get_alert_level returns exactly the
\* level of the band h falls in (upper bounds inclusive: h <= 3 CRITICAL,
\* 3 < h <= 12 HIGH, 12 < h <= 48 MEDIUM, 48 < h <= 168 LOW, h > 168 IGNORE)
\* and get_notification_interval gives 1, 3, 12, 24, 168 hours respectively.
C1_AlertLevelBands ==
    probe.op = "get_alert_level" =>
        LET h == probe.h
            T == TicksPerHour
        IN  /\ h >= 0
            /\ \/ h <= 3 * T /\ probe.level = "CRITICAL" /\ probe.interval = 1
               \/ 3 * T < h /\ h <= 12 * T /\ probe.level = "HIGH" /\ probe.interval = 3
               \/ 12 * T < h /\ h <= 48 * T /\ probe.level = "MEDIUM" /\ probe.interval = 12
               \/ 48 * T < h /\ h <= 168 * T /\ probe.level = "LOW" /\ probe.interval = 24
               \/ 168 * T < h /\ probe.level = "IGNORE" /\ probe.interval = 168

\* the boundary value 3h has been classified, as CRITICAL
C1_Witness ==
    /\ probe.op = "get_alert_level"
    /\ probe.h = CRITICAL_THRESHOLD * TicksPerHour
    /\ probe.level = "CRITICAL"

ScoreGt(a, b) == a.num * b.den > b.num * a.den

\* C13: of two records with equal prize and tag score, the one with strictly
\* fewer hours_remaining has the strictly higher priority_score, for all
\* hours_remaining >= 0.
C13_FewerHoursStrictlyHigher ==
    (probe.op = "calculate_priority_score" /\ probe.h < probe.h2) =>
        ScoreGt(probe.score, probe.score2)

\* C13 as the code has it: the record with fewer hours_remaining never has
\* the lower score; its score is strictly higher when the other record has
\* more than 1 hour left, and equal when both have at most 1 hour left.
C13_FewerHoursNotLower ==
    (probe.op = "calculate_priority_score" /\ probe.h < probe.h2) =>
        /\ ScoreGeq(probe.score, probe.score2)
        /\ probe.h2 > TicksPerHour => ScoreGt(probe.score, probe.score2)
        /\ probe.h2 <= TicksPerHour =>
               /\ ScoreGeq(probe.score2, probe.score)
               /\ probe.score = probe.score2

\* a record with less than 1 hour left has been scored against one with more
\* than 1 hour left and the same prize, and has the higher score
C13_Witness ==
    /\ probe.op = "calculate_priority_score"
    /\ probe.h < TicksPerHour
    /\ probe.h2 > TicksPerHour
    /\ probe.prize > 0
    /\ ScoreGt(probe.score, probe.score2)

\* C14: calculate_hours_remaining never returns a negative value; for a
\* deadline at or before the current time it returns 0 (and the time left
\* otherwise).
C14_HoursRemainingClamped ==
    probe.op = "calculate_hours_remaining" =>
        /\ probe.hours >= 0
        /\ probe.deadline <= probe.t => probe.hours = 0
        /\ probe.deadline > probe.t => probe.hours = probe.deadline - probe.t

\* a deadline before the current time has given 0 hours
C14_Witness ==
    /\ probe.op = "calculate_hours_remaining"
    /\ probe.deadline < probe.t
    /\ probe.hours = 0

----------------------------------------------------------------------------
(* state.py: StateManager *)

\* A state entry is [kind, at, level, name]: kind says what the JSON value of
\* 'last_notified' is: "ok" an ISO timestamp (the tick `at`), "bad" a
\* non-empty string datetime.fromisoformat rejects, "empty" a missing key,
\* null or "" (falsy in Python).

\* The state file is [kind, data]: kind "missing" (no such file), "badjson"
\* (text that is not JSON), "badbytes" (bytes that do not decode as text),
\* "json" (an object, `data`).

\* _load_state: json.load raises JSONDecodeError on text that is not JSON,
\* caught; on undecodable bytes the read raises UnicodeDecodeError, a
\* ValueError that is neither a JSONDecodeError nor an IOError: not caught.
load_state(f) ==
    IF f.kind = "missing" THEN [raised |-> FALSE, state |-> EmptyMap]
    ELSE IF f.kind = "json" THEN [raised |-> FALSE, state |-> f.data]
    ELSE IF f.kind = "badjson" THEN [raised |-> FALSE, state |-> EmptyMap]
    ELSE [raised |-> TRUE, state |-> EmptyMap]

\* a save that leaves the file as it is
save_state_skipped(s) == file

\* _save_state: the whole map overwrites the file
save_state(s) == [kind |-> "json", data |-> s]

should_notify_stored_level(s, h, t) ==
    IF h.url \notin DOMAIN s THEN TRUE
    ELSE IF s[h.url].kind = "empty" THEN TRUE
    ELSE IF s[h.url].kind = "bad" THEN TRUE
    ELSE (t - s[h.url].at) >= INTERVALS[s[h.url].level] * TicksPerHour

should_notify_le(s, h, t) ==
    IF h.url \notin DOMAIN s THEN TRUE
    ELSE IF s[h.url].kind = "empty" THEN TRUE
    ELSE IF s[h.url].kind = "bad" THEN TRUE
    ELSE (t - s[h.url].at) <= h.notification_interval * TicksPerHour

should_notify(s, h, t) ==
    IF h.url \notin DOMAIN s THEN TRUE
    ELSE IF s[h.url].kind = "empty" THEN TRUE
    ELSE IF s[h.url].kind = "bad" THEN TRUE
    ELSE (t - s[h.url].at) >= h.notification_interval * TicksPerHour

record_notification_keep_time(s, h, t) ==
    [u \in DOMAIN s \cup {h.url} |->
        IF u = h.url
        THEN [kind |-> "ok",
              at |-> IF u \in DOMAIN s /\ s[u].kind = "ok" THEN s[u].at ELSE t,
              level |-> h.alert_level, name |-> h.name]
        ELSE s[u]]

record_notification(s, h, t) ==
    [u \in DOMAIN s \cup {h.url} |->
        IF u = h.url
        THEN [kind |-> "ok", at |-> t, level |-> h.alert_level, name |-> h.name]
        ELSE s[u]]

filter_for_notification(s, hs, t) ==
    SelectSeq(hs, LAMBDA h : should_notify(s, h, t))

HoursPerDay == 24

\* cutoff = datetime.now() - timedelta(days=days)
cleanup_cutoff(days, t) == t - days * HoursPerDay * TicksPerHour

cleanup_to_remove_le(s, days, t) ==
    {u \in DOMAIN s :
        /\ s[u].kind # "empty"
        /\ \/ s[u].kind = "bad"
           \/ s[u].kind = "ok" /\ s[u].at <= cleanup_cutoff(days, t)}

cleanup_to_remove(s, days, t) ==
    {u \in DOMAIN s :
        /\ s[u].kind # "empty"
        /\ \/ s[u].kind = "bad"
           \/ s[u].kind = "ok" /\ s[u].at < cleanup_cutoff(days, t)}

cleanup_old_entries_no_delete(s, days, t) == s

cleanup_old_entries(s, days, t) ==
    [u \in DOMAIN s \ cleanup_to_remove(s, days, t) |-> s[u]]

----------------------------------------------------------------------------
(* Direct calls on a StateManager, as test_components.py makes them *)

MaxNow == 3
RETENTION_DAYS == 30
Retention == RETENTION_DAYS * HoursPerDay * TicksPerHour

\* ages (in ticks, before tick 0) of the timestamps a state file starts with
InitAges == {2 * TicksPerHour, Retention - 1, Retention, 40 * HoursPerDay * TicksPerHour}

InitEntries(u) ==
    {[kind |-> "bad", at |-> 0, level |-> "LOW", name |-> Name(u)],
     [kind |-> "empty", at |-> 0, level |-> "LOW", name |-> Name(u)]}
    \cup {[kind |-> "ok", at |-> 0 - a, level |-> "LOW", name |-> Name(u)] : a \in InitAges}

InitMaps ==
    UNION {{m \in [S -> UNION {InitEntries(u) : u \in S}] :
                \A u \in S : m[u] \in InitEntries(u)} : S \in SUBSET URLs}

InitFiles ==
    {[kind |-> k, data |-> EmptyMap] : k \in {"missing", "badjson", "badbytes"}}
    \cup {[kind |-> "json", data |-> m] : m \in InitMaps}

\* scored records handed to the store: the two fields of a level as
\* process_hackathons sets them, or a hand-made record with interval 0
StoreRecords ==
    {[url |-> u, name |-> Name(u), alert_level |-> l, notification_interval |-> i] :
        u \in URLs, l \in {"CRITICAL", "LOW"}, i \in {0, INTERVALS["CRITICAL"], INTERVALS["LOW"]}}

InitStore ==
    /\ RunIdle
    /\ ScrapeIdle
    /\ now = 0
    /\ file \in InitFiles
    /\ mgr = "none"
    /\ state = EmptyMap
    /\ probe = NoProbe
    /\ prev = NoProbe

\* StateManager(state_file)
NewStateManager ==
    /\ mgr = "none"
    /\ LET r == load_state(file)
       IN  /\ mgr' = IF r.raised THEN "raised" ELSE "ready"
           /\ state' = r.state
           /\ probe' = [NoProbe EXCEPT !.op = "load", !.t = now, !.result = ~r.raised]
    /\ prev' = probe
    /\ UNCHANGED <<scrapeVars, now, file, runVars>>

ShouldNotify ==
    /\ mgr = "ready"
    /\ \E h \in StoreRecords :
          /\ h.notification_interval \in {0, INTERVALS[h.alert_level]}
          /\ probe' = [NoProbe EXCEPT !.op = "should_notify", !.url = h.url,
                                      !.level = h.alert_level,
                                      !.interval = h.notification_interval,
                                      !.t = now,
                                      !.result = should_notify(state, h, now)]
    /\ prev' = probe
    /\ UNCHANGED <<scrapeVars, now, file, mgr, state, runVars>>

RecordNotification ==
    /\ mgr = "ready"
    /\ \E h \in StoreRecords :
          /\ h.notification_interval \in {0, INTERVALS[h.alert_level]}
          /\ state' = record_notification(state, h, now)
          /\ probe' = [NoProbe EXCEPT !.op = "record_notification", !.url = h.url,
                                      !.level = h.alert_level,
                                      !.interval = h.notification_interval,
                                      !.t = now, !.result = TRUE, !.wrote = TRUE]
    /\ file' = save_state(state')
    /\ prev' = probe
    /\ UNCHANGED <<scrapeVars, now, mgr, runVars>>

CleanupOldEntries ==
    /\ mgr = "ready"
    /\ LET gone == cleanup_to_remove(state, RETENTION_DAYS, now)
       IN  /\ state' = cleanup_old_entries(state, RETENTION_DAYS, now)
           /\ file' = IF gone # {} THEN save_state(state') ELSE file
           /\ probe' = [NoProbe EXCEPT !.op = "cleanup_old_entries", !.t = now,
                                       !.result = TRUE, !.removed = gone,
                                       !.wrote = (gone # {})]
    /\ prev' = probe
    /\ UNCHANGED <<scrapeVars, now, mgr, runVars>>

TickStore ==
    /\ now < MaxNow
    /\ now' = now + 1
    /\ UNCHANGED <<scrapeVars, file, mgr, state, probe, prev, runVars>>

NextStore ==
    \/ NewStateManager
    \/ ShouldNotify
    \/ RecordNotification
    \/ CleanupOldEntries
    \/ TickStore

SpecStore == InitStore /\ [][NextStore]_vars

----------------------------------------------------------------------------
(* Properties of the state store *)

Unparsable(e) == e.kind \in {"bad", "empty"}

\* C3: should_notify is true for a URL the store has no entry for, and false
\* right after record_notification for that URL (before the record's
\* notification interval, which is > 0, has elapsed).
C3_FreshThenSuppressed ==
    probe.op = "should_notify" =>
        /\ probe.url \notin DOMAIN state => probe.result
        /\ ( /\ prev.op = "record_notification"
             /\ prev.url = probe.url
             /\ probe.interval > 0
             /\ probe.t - prev.t < probe.interval * TicksPerHour ) => ~probe.result

C3_Witness ==
    /\ probe.op = "should_notify"
    /\ prev.op = "record_notification"
    /\ prev.url = probe.url
    /\ probe.interval > 0
    /\ probe.t = prev.t
    /\ ~probe.result

\* C4: should_notify is true exactly when the URL is absent from the store,
\* or the stored last_notified cannot be parsed (malformed, empty or
\* missing), or the hours since last_notified are >= the interval of the
\* record passed in (its current level's interval, not the stored level's).
C4_ShouldNotifyExactly ==
    probe.op = "should_notify" =>
        ( probe.result <=>
            \/ probe.url \notin DOMAIN state
            \/ Unparsable(state[probe.url])
            \/ probe.t - state[probe.url].at >= probe.interval * TicksPerHour )

\* a stored LOW entry younger than LOW's 24h, asked about with a shorter
\* current interval that has elapsed: notify
C4_Witness ==
    /\ probe.op = "should_notify"
    /\ probe.url \in DOMAIN state
    /\ state[probe.url].kind = "ok"
    /\ probe.interval > 0
    /\ probe.t - state[probe.url].at >= probe.interval * TicksPerHour
    /\ probe.t - state[probe.url].at < INTERVALS[state[probe.url].level] * TicksPerHour
    /\ probe.result

\* C8 as stated: cleanup_old_entries(30) removes exactly the entries older
\* than the cutoff or unparsable, keeps the others unchanged, writes the file
\* iff something was removed, and leaves only parsable entries not older
\* than the cutoff.
C8_Original ==
    [][CleanupOldEntries =>
        LET cutoff == now - Retention
            gone == {u \in DOMAIN state :
                        Unparsable(state[u]) \/ state[u].at < cutoff}
        IN  /\ DOMAIN state' = DOMAIN state \ gone
            /\ \A u \in DOMAIN state' : state'[u] = state[u]
            /\ probe'.wrote <=> (gone # {})
            /\ gone # {} => file' = [kind |-> "json", data |-> state']
            /\ gone = {} => file' = file
            /\ \A u \in DOMAIN state' :
                  state'[u].kind = "ok" /\ state'[u].at >= cutoff]_vars

\* C8 (amended): cleanup_old_entries(30) removes exactly the entries whose
\* last_notified is a parsable timestamp older than the cutoff or a non-empty
\* unparsable string; entries with a missing or empty last_notified are kept;
\* every kept entry is unchanged; the file is written iff something was
\* removed; afterwards every remaining entry has either no last_notified or
\* a parsable one not older than the cutoff.
C8_CleanupExact ==
    [][CleanupOldEntries =>
        LET cutoff == now - Retention
            gone == {u \in DOMAIN state :
                        \/ state[u].kind = "bad"
                        \/ state[u].kind = "ok" /\ state[u].at < cutoff}
        IN  /\ DOMAIN state' = DOMAIN state \ gone
            /\ \A u \in DOMAIN state' : state'[u] = state[u]
            /\ probe'.wrote <=> (gone # {})
            /\ gone # {} => file' = [kind |-> "json", data |-> state']
            /\ gone = {} => file' = file
            /\ \A u \in DOMAIN state' :
                  \/ state'[u].kind = "empty"
                  \/ state'[u].kind = "ok" /\ state'[u].at >= cutoff]_vars

\* a cleanup that removed an entry and kept one with no timestamp
C8_Witness ==
    /\ probe.op = "cleanup_old_entries"
    /\ probe.removed # {}
    /\ probe.wrote
    /\ \E u \in DOMAIN state : state[u].kind = "empty"

\* C9: cleanup_old_entries(30) called twice in a row: what the first call
\* removed is absent after the second, no entry older than the window is
\* left, and with no time elapsed in between the second call removes nothing
\* and does not write the file.
C9_CleanupIdempotent ==
    (probe.op = "cleanup_old_entries" /\ prev.op = "cleanup_old_entries") =>
        /\ prev.removed \cap DOMAIN state = {}
        /\ \A u \in DOMAIN state :
              state[u].kind = "ok" => state[u].at >= probe.t - Retention
        /\ probe.t = prev.t => (probe.removed = {} /\ ~probe.wrote)

C9_Witness ==
    /\ probe.op = "cleanup_old_entries"
    /\ prev.op = "cleanup_old_entries"
    /\ probe.t = prev.t
    /\ \E u \in prev.removed : TRUE
    /\ probe.removed = {}

C10_CorruptLoadsEmpty ==
    /\ (mgr # "none" /\ file.kind # "json") =>
          /\ mgr = "ready"
          /\ state = EmptyMap
          /\ probe.op = "should_notify" => probe.result
    /\ (mgr # "none" /\ probe.op = "record_notification") =>
          /\ probe.url \in DOMAIN state
          /\ state[probe.url].kind = "ok"
          /\ state[probe.url].at = probe.t
          /\ file = [kind |-> "json", data |-> state]

\* what holds of the file contents the except clause does cover
C10_HandledKinds ==
    (mgr # "none" /\ file.kind \in {"missing", "badjson"}) =>
          /\ mgr = "ready"
          /\ state = EmptyMap
          /\ probe.op = "should_notify" => probe.result

----------------------------------------------------------------------------
(* urgency.py: scoring and ranking *)

\* one iteration of the loop of process_hackathons
score_one(hackathon, t) ==
    LET h == calculate_hours_remaining(hackathon.deadline, t)
        lvl == get_alert_level(h)
    IN  [url |-> hackathon.url, name |-> hackathon.name,
         deadline |-> hackathon.deadline, prize_amount |-> hackathon.prize_amount,
         hours_remaining |-> h, alert_level |-> lvl,
         priority_score |-> calculate_priority_score(h, hackathon.prize_amount, 0),
         notification_interval |-> get_notification_interval(lvl)]

\* list.sort(key=priority_score, reverse=True): descending and stable
RECURSIVE sort_by_priority(_)
sort_by_priority(s) ==
    IF s = <<>> THEN <<>>
    ELSE LET init == sort_by_priority(SubSeq(s, 1, Len(s) - 1))
             x == s[Len(s)]
             k == Cardinality({i \in 1..Len(init) :
                        ScoreGeq(init[i].priority_score, x.priority_score)})
         IN  SubSeq(init, 1, k) \o <<x>> \o SubSeq(init, k + 1, Len(init))

\* s[:n] of Python: a negative n counts from the end
py_prefix(s, n) ==
    SubSeq(s, 1, IF n >= 0 THEN Min(n, Len(s)) ELSE Max(Len(s) + n, 0))

scored_all(hs, t) == [i \in 1..Len(hs) |-> score_one(hs[i], t)]

process_hackathons(hs, top_n, t) ==
    py_prefix(
        sort_by_priority(
            SelectSeq(scored_all(hs, t), LAMBDA r : r.alert_level # "IGNORE")),
        top_n)

----------------------------------------------------------------------------
(* notifier.py: send_batch *)

\* what a requests.post can come to: HTTP 200, another status, or a
\* RequestException
Outcomes == {"200", "non200", "exception"}

send_notification_raise(h, dry_run, outcome) ==
    [url |-> h.url, level |-> h.alert_level,
     posted |-> ~dry_run,
     outcome |-> IF dry_run THEN "none" ELSE outcome,
     ok |-> (dry_run \/ outcome = "200"),
     aborted |-> (~dry_run /\ outcome = "exception")]

\* send_notification: a dry run prints and returns True without a request; a
\* live send posts and returns True on HTTP 200, False on another status
\* and on a RequestException (caught).  aborted: an exception left the call.
send_notification(h, dry_run, outcome) ==
    [url |-> h.url, level |-> h.alert_level,
     posted |-> ~dry_run,
     outcome |-> IF dry_run THEN "none" ELSE outcome,
     ok |-> (dry_run \/ outcome = "200"),
     aborted |-> FALSE]

\* the loop of send_batch stops at a call that an exception leaves
RECURSIVE batch_upto(_, _, _, _)
batch_upto(hs, dry_run, outs, i) ==
    IF i > Len(hs) THEN <<>>
    ELSE LET r == send_notification(hs[i], dry_run, outs[i])
         IN  IF r.aborted THEN <<r>>
             ELSE <<r>> \o batch_upto(hs, dry_run, outs, i + 1)

\* send_batch: the send_notification calls, in order
send_batch(hs, dry_run, outs) == batch_upto(hs, dry_run, outs, 1)

RECURSIVE batch_log_after_each(_, _)
batch_log_after_each(ss, dry_run) ==
    IF ss = <<>> THEN <<>>
    ELSE <<[ev |-> "send", url |-> Head(ss).url]>>
         \o (IF ~dry_run THEN <<[ev |-> "sleep", url |-> Head(ss).url]>> ELSE <<>>)
         \o batch_log_after_each(Tail(ss), dry_run)

\* send_batch: each send_notification, and time.sleep(2) after it when it is
\* not the last of the list and the run is live
RECURSIVE batch_log(_, _)
batch_log(ss, dry_run) ==
    IF ss = <<>> THEN <<>>
    ELSE <<[ev |-> "send", url |-> Head(ss).url]>>
         \o (IF Len(ss) > 1 /\ ~dry_run
             THEN <<[ev |-> "sleep", url |-> Head(ss).url]>> ELSE <<>>)
         \o batch_log(Tail(ss), dry_run)

batch_result(ss) ==
    [sent |-> Cardinality({i \in 1..Len(ss) : ss[i].ok}),
     failed |-> Cardinality({i \in 1..Len(ss) : ~ss[i].ok})]

----------------------------------------------------------------------------
(* Direct calls of send_batch, as test_components.py makes them (dry run) *)
(* and as a live notifier makes them                                      *)

MaxBatch == 3

BatchRecords == [url : URLs, alert_level : {"CRITICAL", "LOW"}]

Batches(n) == SeqsUpTo(BatchRecords, n)

\* a notifier and a list of records to send, nothing sent yet
InitNotifier ==
    /\ ScrapeIdle
    /\ now = 0
    /\ file = NoFile
    /\ mgr = "none"
    /\ state = EmptyMap
    /\ probe = NoProbe
    /\ prev = NoProbe
    /\ pc = "idle"
    /\ \E d \in BOOLEAN : cfg = [NoConfig EXCEPT !.dry_run = d]
    /\ hackathons = <<>>
    /\ urgent = <<>>
    /\ to_notify \in Batches(MaxBatch)
    /\ sends = <<>>
    /\ result = NoResult
    /\ file0 = NoFile
    /\ sentAt = [u \in URLs |-> Never]
    /\ failedAt = [u \in URLs |-> Never]
    /\ log = <<>>
    /\ exit_code = Running

\* send_batch(to_notify, dry_run)
SendBatch ==
    /\ pc = "idle"
    /\ \E outs \in [1..Len(to_notify) -> Outcomes] :
          sends' = send_batch(to_notify, cfg.dry_run, outs)
    /\ result' = batch_result(sends')
    /\ log' = batch_log(to_notify, cfg.dry_run)
    /\ pc' = "sent"
    /\ UNCHANGED <<scrapeVars, now, file, mgr, state, probe, prev, cfg, hackathons, urgent, to_notify, file0, sentAt, failedAt, exit_code>>

NextNotifier == SendBatch

SpecNotifier == InitNotifier /\ [][NextNotifier]_vars

Sleeps == {i \in 1..Len(log) : log[i].ev = "sleep"}

SendEvents == SelectSeq(log, LAMBDA e : e.ev = "send")

\* C15: send_batch attempts every record in order; sent + failed is the
\* number of records; a live batch of n records has exactly max(0, n-1)
\* delays, each between two consecutive sends and none after the last; a
\* dry-run batch has no delay.
C15_BatchOrderCountsDelays ==
    pc = "sent" =>
        LET n == Len(to_notify)
        IN  /\ Len(sends) = n
            /\ \A i \in 1..n : sends[i].url = to_notify[i].url
                                /\ sends[i].level = to_notify[i].alert_level
            /\ Len(SendEvents) = n
            /\ \A i \in 1..n : SendEvents[i].url = to_notify[i].url
            /\ result.sent + result.failed = n
            /\ Cardinality(Sleeps) = IF cfg.dry_run THEN 0 ELSE Max(0, n - 1)
            /\ \A i \in Sleeps :
                  /\ 1 < i /\ i < Len(log)
                  /\ log[i - 1].ev = "send" /\ log[i + 1].ev = "send"
            /\ \A i \in 1..(Len(log) - 1) :
                  (~cfg.dry_run /\ log[i].ev = "send") => log[i + 1].ev = "sleep"

\* a live batch of three records has been sent with two delays
C15_Witness ==
    /\ pc = "sent"
    /\ ~cfg.dry_run
    /\ Len(to_notify) = 3
    /\ Cardinality(Sleeps) = 2
    /\ log[Len(log)].ev = "send"

\* C16: in live mode a send that gets a non-200 status or a network
\* exception fails for that record only, and every record of the batch is
\* still attempted; in dry-run mode every send reports success and nothing
\* is posted.
C16_FailurePerRecord ==
    pc = "sent" =>
        /\ Len(sends) = Len(to_notify)
        /\ \A i \in 1..Len(sends) :
              /\ sends[i].url = to_notify[i].url
              /\ sends[i].posted = ~cfg.dry_run
              /\ sends[i].ok = (cfg.dry_run \/ sends[i].outcome = "200")
        /\ result.failed = Cardinality({i \in 1..Len(sends) :
                                          sends[i].outcome \in {"non200", "exception"}})
        /\ result.sent = Len(to_notify) - result.failed
        /\ cfg.dry_run => result.failed = 0

\* a live batch whose first send raised and whose second got a non-200
\* status went on to a third, successful send
C16_Witness ==
    /\ pc = "sent"
    /\ ~cfg.dry_run
    /\ Len(sends) = 3
    /\ sends[1].outcome = "exception"
    /\ sends[2].outcome = "non200"
    /\ sends[3].ok
    /\ result = [sent |-> 1, failed |-> 2]

----------------------------------------------------------------------------
(* main.py: main *)

MaxRunNow == 2
MaxTopN == 2

\* TOP_N_HACKATHONS is any integer: int(os.getenv(...)), not validated
TopNs == (0 - 1)..MaxTopN

\* hours to the deadline, in ticks, of a scraped hackathon: 1h, 3.5h,
\* 168.5h
RemainChoices == {TicksPerHour, 3 * TicksPerHour + 1, 168 * TicksPerHour + 1}

\* the prize the page shows for a hackathon: none for u1
PrizeOf(u) == IF u = "u1" THEN 0 ELSE 5000

Scraped(t) ==
    {[url |-> u, name |-> Name(u), deadline |-> t + r, prize_amount |-> PrizeOf(u)] :
        u \in URLs, r \in RemainChoices}

\* what get_active_hackathons can return at tick t: future deadlines, one
\* record per URL, ascending by deadline
Scrapes(t) ==
    {<<>>} \cup {<<a>> : a \in Scraped(t)}
    \cup {p \in {<<a, b>> : a \in Scraped(t), b \in Scraped(t)} :
                p[1].url # p[2].url /\ p[1].deadline <= p[2].deadline}

\* the state files a run can find
RunInitAges == {TicksPerHour, Retention}

RunInitEntries(u) ==
    {[kind |-> "ok", at |-> 0 - a, level |-> "LOW", name |-> Name(u)] : a \in RunInitAges}

RunInitMaps ==
    UNION {{m \in [S -> UNION {RunInitEntries(u) : u \in S}] :
                \A u \in S : m[u] \in RunInitEntries(u)} : S \in SUBSET URLs}

RunInitFiles ==
    {[kind |-> k, data |-> EmptyMap] : k \in {"missing", "badjson", "badbytes"}}
    \cup {[kind |-> "json", data |-> m] : m \in RunInitMaps}

Init ==
    /\ RunIdle
    /\ ScrapeIdle
    /\ now = 0
    /\ file \in RunInitFiles
    /\ mgr = "none"
    /\ state = EmptyMap
    /\ probe = NoProbe
    /\ prev = NoProbe

harness == <<probe, prev>>

\* load_config: "missing" a required variable is not set (ValueError of
\* line 34), "invalid" TOP_N_HACKATHONS is not an integer (ValueError of
\* int(), line 25)
ConfigOutcomes == {"ok", "missing", "invalid"}

\* main(dry_run, force) up to the scrape (Step 1), with the flags, the
\* configuration and top_n drawn from the given sets.  A ValueError of
\* load_config: sys.exit(1).  No hackathons: return.
BeginWith(DryRuns, Forces, Configs, Ns) ==
    /\ pc = "idle"
    /\ \E d \in DryRuns, f \in Forces, c \in Configs :
          IF c # "ok"
          THEN /\ cfg' = [dry_run |-> d, force |-> f, top_n |-> 0, config |-> c]
               /\ hackathons' = <<>>
               /\ pc' = "done"
               /\ exit_code' = 1
          ELSE \E n \in Ns, hs \in Scrapes(now) :
                  /\ cfg' = [dry_run |-> d, force |-> f, top_n |-> n, config |-> c]
                  /\ hackathons' = hs
                  /\ pc' = IF hs = <<>> THEN "done" ELSE "scraped"
                  /\ exit_code' = IF hs = <<>> THEN 0 ELSE Running
    /\ file0' = file
    /\ UNCHANGED <<scrapeVars, now, file, mgr, state, harness, urgent, to_notify, sends, result, sentAt, failedAt, log>>

Begin == BeginWith(BOOLEAN, BOOLEAN, ConfigOutcomes, TopNs)

\* a live run with a valid configuration that keeps every scored record
BeginLive == BeginWith({FALSE}, BOOLEAN, {"ok"}, {MaxTopN})

\* Step 2: compute_urgency; nothing urgent: return
ComputeUrgency ==
    /\ pc = "scraped"
    /\ urgent' = process_hackathons(hackathons, cfg.top_n, now)
    /\ hackathons' = <<>>
    /\ pc' = IF urgent' = <<>> THEN "done" ELSE "scored"
    /\ exit_code' = IF urgent' = <<>> THEN 0 ELSE Running
    /\ UNCHANGED <<scrapeVars, now, file, mgr, state, harness, cfg, to_notify, sends, result, file0, sentAt, failedAt, log>>

\* a main that goes on to the cleanup when nothing is to be notified
after_filter_cleanup(tn) == IF tn = <<>> THEN "updated" ELSE "filtered"

\* if not to_notify: return (lines 125-128)
after_filter(tn) == IF tn = <<>> THEN "done" ELSE "filtered"

\* Step 3: StateManager(), then the state filter unless forced; nothing to
\* notify: return.  An exception of the constructor ends the run.
FilterState ==
    /\ pc = "scored"
    /\ LET r == load_state(file)
       IN  IF r.raised
           THEN /\ pc' = "crashed"
                /\ mgr' = "raised"
                /\ exit_code' = 1
                /\ UNCHANGED <<state, to_notify>>
           ELSE /\ mgr' = "ready"
                /\ state' = r.state
                /\ to_notify' = IF cfg.force THEN urgent
                                ELSE filter_for_notification(r.state, urgent, now)
                /\ pc' = after_filter(to_notify')
                /\ exit_code' = IF to_notify' = <<>> THEN 0 ELSE Running
    /\ UNCHANGED <<scrapeVars, now, file, harness, cfg, hackathons, urgent, sends, result, file0, sentAt, failedAt, log>>

\* the outcomes of the posts of a run
RunOutcomes == {"200", "exception"}

\* Step 4: send_notifications; track says whether the history failedAt is
\* kept
SendWith(track) ==
    /\ pc = "filtered"
    /\ \E outs \in [1..Len(to_notify) -> RunOutcomes] :
          sends' = send_batch(to_notify, cfg.dry_run, outs)
    /\ result' = batch_result(sends')
    /\ log' = batch_log(to_notify, cfg.dry_run)
    /\ sentAt' = [u \in URLs |->
                    IF /\ ~cfg.force
                       /\ \E i \in 1..Len(sends') : sends'[i].url = u /\ sends'[i].posted
                    THEN now ELSE sentAt[u]]
    /\ failedAt' = [u \in URLs |->
                    IF /\ track
                       /\ ~cfg.force
                       /\ \E i \in 1..Len(sends') :
                             sends'[i].url = u /\ sends'[i].posted /\ ~sends'[i].ok
                    THEN now ELSE failedAt[u]]
    /\ pc' = "sent"
    /\ UNCHANGED <<scrapeVars, now, file, mgr, state, harness, cfg, hackathons, urgent, to_notify, file0, exit_code>>

Send == SendWith(FALSE)

SendTracked == SendWith(TRUE)

RECURSIVE record_all(_, _, _)
record_all(s, hs, t) ==
    IF hs = <<>> THEN s
    ELSE record_all(record_notification(s, Head(hs), t), Tail(hs), t)

\* a Step 5 that records the records whose send succeeded only
to_record_sent_only(hs, ss) ==
    SelectSeq(hs, LAMBDA h : \E i \in 1..Len(ss) : ss[i].url = h.url /\ ss[i].ok)

\* for hackathon in to_notify (line 148): every record handed to the
\* notifier, whatever send_notifications returned
to_record(hs, ss) == hs

\* Step 5: record_notification for each of to_notify, unless dry run or forced
UpdateState ==
    /\ pc = "sent"
    /\ IF ~cfg.dry_run /\ ~cfg.force
       THEN /\ state' = record_all(state, to_record(to_notify, sends), now)
            /\ file' = save_state(state')
       ELSE UNCHANGED <<state, file>>
    /\ pc' = "updated"
    /\ UNCHANGED <<scrapeVars, now, mgr, harness, cfg, hackathons, urgent, to_notify, sends, result, file0, sentAt, failedAt, log, exit_code>>

\* state_manager.cleanup_old_entries(days=30), in every run that got here
Cleanup ==
    /\ pc = "updated"
    /\ state' = cleanup_old_entries(state, RETENTION_DAYS, now)
    /\ file' = IF cleanup_to_remove(state, RETENTION_DAYS, now) # {}
               THEN save_state(state') ELSE file
    /\ pc' = "done"
    /\ exit_code' = 0
    /\ UNCHANGED <<scrapeVars, now, mgr, harness, cfg, hackathons, urgent, to_notify, sends, result, file0, sentAt, failedAt, log>>

\* the process ends; the next run starts afresh
Finish ==
    /\ pc \in {"done", "crashed"}
    /\ pc' = "idle"
    /\ cfg' = NoConfig
    /\ hackathons' = <<>>
    /\ urgent' = <<>>
    /\ to_notify' = <<>>
    /\ sends' = <<>>
    /\ result' = NoResult
    /\ file0' = NoFile
    /\ mgr' = "none"
    /\ state' = EmptyMap
    /\ log' = <<>>
    /\ exit_code' = Running
    /\ UNCHANGED <<scrapeVars, now, file, harness, sentAt, failedAt>>

\* time passes, between runs and during one
Tick ==
    /\ now < MaxRunNow
    /\ now' = now + 1
    /\ UNCHANGED <<scrapeVars, file, mgr, state, harness, runVars>>

Next ==
    \/ Begin
    \/ ComputeUrgency
    \/ FilterState
    \/ Send
    \/ UpdateState
    \/ Cleanup
    \/ Finish
    \/ Tick

Spec == Init /\ [][Next]_vars

----------------------------------------------------------------------------
(* Properties of a run *)

Scored == pc \in {"scored", "filtered", "sent", "updated"}
Ended == pc \in {"done", "crashed"}

SendUrls == [i \in 1..Len(sends) |-> sends[i].url]
UrgentUrls == [i \in 1..Len(urgent) |-> urgent[i].url]

\* C2: for every configured top_n process_hackathons returns at most top_n
\* entries, none of them IGNORE, and no IGNORE-level record is handed to the
\* notifier.
C2_TopNNoIgnore ==
    /\ Scored => /\ Len(urgent) <= cfg.top_n
                 /\ \A i \in 1..Len(urgent) : urgent[i].alert_level # "IGNORE"
    /\ \A i \in 1..Len(sends) : sends[i].level # "IGNORE"

\* what holds of process_hackathons for every top_n, negative ones included
C2_NoIgnoreAnyTopN ==
    /\ Scored => /\ cfg.top_n >= 0 => Len(urgent) <= cfg.top_n
                 /\ \A i \in 1..Len(urgent) : urgent[i].alert_level # "IGNORE"
    /\ \A i \in 1..Len(sends) : sends[i].level # "IGNORE"

\* C5: in live, non-forced runs a notification for a URL comes at least the
\* notification interval of the record's level (as scored in the run that
\* sends it) after the previous such notification for that URL.
C5_IntervalBetweenNotifications ==
    [][(pc = "filtered" /\ pc' = "sent" /\ ~cfg.dry_run /\ ~cfg.force) =>
        \A i \in 1..Len(sends') :
            (sends'[i].posted /\ sentAt[sends'[i].url] # Never) =>
                now - sentAt[sends'[i].url] >= INTERVALS[sends'[i].level] * TicksPerHour]_vars

\* a live, non-forced run has posted for a URL that an earlier run of this
\* behaviour had recorded
C5_Witness ==
    /\ pc = "sent"
    /\ ~cfg.dry_run
    /\ ~cfg.force
    /\ file0.kind = "json"
    /\ \E i \in 1..Len(sends) :
          /\ sends[i].posted
          /\ sends[i].url \in DOMAIN file0.data
          /\ file0.data[sends[i].url].at >= 0
          /\ sentAt[sends[i].url] = now

\* C6: a run with dry_run true posts nothing and ends with the state file as
\* it was at the start.
C6_DryRunNoEffect ==
    (Ended /\ cfg.dry_run) =>
        /\ \A i \in 1..Len(sends) : ~sends[i].posted
        /\ file = file0

\* what holds of a dry run: nothing is posted and no entry is created or
\* updated (entries can only disappear)
C6_DryRunNoPostNoRecord ==
    cfg.dry_run =>
        /\ \A i \in 1..Len(sends) : ~sends[i].posted
        /\ \A u \in DOMAIN file.data :
              file0.kind = "json" /\ u \in DOMAIN file0.data /\ file.data[u] = file0.data[u]

\* C7: a run with force true hands every record the scorer returned to the
\* notifier, whatever the stored state, and creates or updates no entry.
C7_ForceHandsAll ==
    (Ended /\ cfg.force) =>
        /\ SendUrls = UrgentUrls
        /\ \A i \in 1..Len(sends) : sends[i].level = urgent[i].alert_level
        /\ \A u \in DOMAIN file.data :
              file0.kind = "json" /\ u \in DOMAIN file0.data /\ file.data[u] = file0.data[u]

\* what holds of the forced runs whose state file the constructor can load
C7_ForceHandsAllLoaded ==
    (pc = "done" /\ cfg.force) =>
        /\ SendUrls = UrgentUrls
        /\ \A i \in 1..Len(sends) : sends[i].level = urgent[i].alert_level
        /\ \A u \in DOMAIN file.data :
              file0.kind = "json" /\ u \in DOMAIN file0.data /\ file.data[u] = file0.data[u]

\* C17: the process exits with code 1 when a required configuration value
\* is missing, and with code 0 in every other run.
C17_ExitCode ==
    Ended => (exit_code = 1 <=> cfg.config = "missing")

\* what holds of the exit code: 1 after a ValueError of load_config (a missing
\* required value or a TOP_N_HACKATHONS that is no integer) and after the
\* uncaught exception of the state load, 0 after every return of main
C17_ExitCodeOfRun ==
    /\ Ended => (exit_code = 1 <=> (cfg.config # "ok" \/ pc = "crashed"))
    /\ Ended => exit_code \in {0, 1}
    /\ ~Ended => exit_code = Running

----------------------------------------------------------------------------
(* Direct calls of process_hackathons, as test_components.py makes them *)

MaxRank == 3

RankURLs == {"u1", "u2", "u3"}

RankPrizes == {0, 10000}

RankRecords ==
    {[url |-> u, name |-> Name(u), deadline |-> r, prize_amount |-> p] :
        u \in RankURLs, r \in RemainChoices, p \in RankPrizes}

\* the lists handed to the scorer: one record per URL, ascending by deadline
RankInputs ==
    {s \in SeqsUpTo(RankRecords, MaxRank) :
        /\ \A i, j \in 1..Len(s) : i # j => s[i].url # s[j].url
        /\ \A i, j \in 1..Len(s) : i < j => s[i].deadline <= s[j].deadline}

InitRank ==
    /\ ScrapeIdle
    /\ now = 0
    /\ file = NoFile
    /\ mgr = "none"
    /\ state = EmptyMap
    /\ probe = NoProbe
    /\ prev = NoProbe
    /\ pc = "idle"
    /\ \E n \in TopNs : cfg = [NoConfig EXCEPT !.top_n = n]
    /\ hackathons \in RankInputs
    /\ urgent = <<>>
    /\ to_notify = <<>>
    /\ sends = <<>>
    /\ result = NoResult
    /\ file0 = NoFile
    /\ sentAt = [u \in URLs |-> Never]
    /\ failedAt = [u \in URLs |-> Never]
    /\ log = <<>>
    /\ exit_code = Running

\* UrgencyEngine(top_n).process_hackathons(hackathons)
ProcessHackathons ==
    /\ pc = "idle"
    /\ urgent' = process_hackathons(hackathons, cfg.top_n, now)
    /\ pc' = "ranked"
    /\ UNCHANGED <<scrapeVars, now, file, mgr, state, harness, cfg, hackathons, to_notify, sends, result, file0, sentAt, failedAt, log, exit_code>>

NextRank == ProcessHackathons

SpecRank == InitRank /\ [][NextRank]_vars

\* the positions of the input whose record is not IGNORE
Candidates ==
    {i \in 1..Len(hackathons) : score_one(hackathons[i], now).alert_level # "IGNORE"}

InputIndex(u) == CHOOSE i \in 1..Len(hackathons) : hackathons[i].url = u

\* record a ranks before record b: higher score, or equal score and earlier
\* in the input
RanksBefore(a, b) ==
    \/ ScoreGt(a.priority_score, b.priority_score)
    \/ /\ a.priority_score.num * b.priority_score.den
            = b.priority_score.num * a.priority_score.den
       /\ InputIndex(a.url) < InputIndex(b.url)

RankedAsClaimed(n) ==
    /\ Len(urgent) = Min(n, Cardinality(Candidates))
    /\ \A k \in 1..Len(urgent) :
          \E i \in Candidates : urgent[k] = score_one(hackathons[i], now)
    /\ \A k, l \in 1..Len(urgent) : k < l => RanksBefore(urgent[k], urgent[l])
    /\ \A i \in Candidates :
          (\A k \in 1..Len(urgent) : urgent[k].url # hackathons[i].url) =>
             \A k \in 1..Len(urgent) : RanksBefore(urgent[k], score_one(hackathons[i], now))

\* C18: process_hackathons returns the non-IGNORE records in descending
\* order of priority_score, records of equal score in input order, truncated
\* to top_n entries.
C18_SortedTruncatedStable ==
    pc = "ranked" => RankedAsClaimed(Max(cfg.top_n, 0))

\* what holds for every top_n that is not negative
C18_SortedTruncatedStableNonNegative ==
    (pc = "ranked" /\ cfg.top_n >= 0) => RankedAsClaimed(cfg.top_n)

\* of three records the last of the input has the highest score and went
\* first; the first two have equal scores and the first of them went second
C18_TieKeptInputOrder ==
    /\ pc = "ranked"
    /\ Cardinality(Candidates) = 3
    /\ Len(urgent) = 2
    /\ InputIndex(urgent[1].url) = 3
    /\ InputIndex(urgent[2].url) = 1
    /\ score_one(hackathons[1], now).priority_score
          = score_one(hackathons[2], now).priority_score

(***************************************************************************)
(* scraper.py: DevpostScraper.get_active_hackathons.  A scraped record is  *)
(* [url, deadline]; pages is the list of the pages fetched so far, each a  *)
(* failed fetch or the records extract_hackathons returned for it.         *)
(***************************************************************************)
MaxPages == 3
MaxPageLen == 2
MaxCollected == 3
MaxDeadline == 3

ScrapedRecords == [url : URLs, deadline : 0..MaxDeadline]

\* a challenge link of a page, by what _parse_challenge_link makes of it:
\* "record" a record with a deadline, "nodeadline" a record whose deadline is
\* None, "none" the return value None, "raises" an exception
ChallengeLinks ==
    {[kind |-> "record", url |-> r.url, deadline |-> r.deadline] : r \in ScrapedRecords}
        \cup {[kind |-> "nodeadline", url |-> u, deadline |-> 0] : u \in URLs}
        \cup {[kind |-> k, url |-> "u1", deadline |-> 0] : k \in {"none", "raises"}}

\* the challenge links of one page, in document order (a URL can be linked
\* more than once)
RawPages == SeqsUpTo(ChallengeLinks, MaxPageLen)

SeqUrls(s) == {s[i].url : i \in 1..Len(s)}

\* the loop over seen/unique: a record is kept unless its URL was seen
RECURSIVE dedup_from(_, _)
dedup_from(s, seen) ==
    IF s = <<>> THEN <<>>
    ELSE IF Head(s).url \in seen THEN dedup_from(Tail(s), seen)
         ELSE <<Head(s)>> \o dedup_from(Tail(s), seen \cup {Head(s).url})

\* a dedup that only looks at the record before
RECURSIVE dedup_adjacent(_)
dedup_adjacent(s) ==
    IF Len(s) <= 1 THEN s
    ELSE IF s[1].url = s[2].url THEN dedup_adjacent(<<s[1]>> \o SubSeq(s, 3, Len(s)))
         ELSE <<s[1]>> \o dedup_adjacent(Tail(s))

\* Deduplicate by URL: first-seen per URL, in order
dedup_by_url(s) == dedup_from(s, {})

\* a loop over the links that an exception of one link ends
RECURSIVE parsed_links_abort(_)
parsed_links_abort(ls) ==
    IF ls = <<>> THEN <<>>
    ELSE IF Head(ls).kind = "raises" THEN <<>>
    ELSE IF Head(ls).kind = "record"
         THEN <<[url |-> Head(ls).url, deadline |-> Head(ls).deadline]>>
              \o parsed_links_abort(Tail(ls))
         ELSE parsed_links_abort(Tail(ls))

\* the loop over challenge_links (lines 55-63): a link is appended when it
\* parses to a record with a deadline; an exception is caught and the loop
\* goes on
RECURSIVE parsed_links(_)
parsed_links(ls) ==
    IF ls = <<>> THEN <<>>
    ELSE IF Head(ls).kind = "record"
         THEN <<[url |-> Head(ls).url, deadline |-> Head(ls).deadline]>>
              \o parsed_links(Tail(ls))
         ELSE parsed_links(Tail(ls))

\* extract_hackathons: the parsed links of the page, deduplicated by URL
extract_hackathons(raw) == dedup_by_url(parsed_links(raw))

\* active = [h for h in all_hackathons if h['deadline'] > now]
future_only(s, t) == SelectSeq(s, LAMBDA h : h.deadline > t)

\* unique.sort(key=deadline): stable, ascending
RECURSIVE sort_by_deadline(_)
sort_by_deadline(s) ==
    IF s = <<>> THEN <<>>
    ELSE LET rest == sort_by_deadline(Tail(s))
             k == Cardinality({i \in 1..Len(rest) : rest[i].deadline < Head(s).deadline})
         IN  SubSeq(rest, 1, k) \o <<Head(s)>> \o SubSeq(rest, k + 1, Len(rest))

\* the order the steps do not have in the code: dedup, then filter
unique_active_dedup_first(all, t) == future_only(dedup_by_url(all), t)

\* lines 267-277: filter to the future records, then dedup by URL
unique_active(all, t) == dedup_by_url(future_only(all, t))

\* one outcome of the page loop that drops what was collected when a fetch fails
page_step_discard(all, outcome) ==
    IF outcome.kind = "fail" THEN [all |-> <<>>, go |-> FALSE]
    ELSE IF outcome.hs = <<>> THEN [all |-> all, go |-> FALSE]
         ELSE [all |-> all \o outcome.hs, go |-> TRUE]

\* one iteration of the page loop (lines 254-265): a failed fetch and an
\* empty page break, another page extends all_hackathons
page_step(all, outcome) ==
    IF outcome.kind = "fail" THEN [all |-> all, go |-> FALSE]
    ELSE IF outcome.hs = <<>> THEN [all |-> all, go |-> FALSE]
         ELSE [all |-> all \o outcome.hs, go |-> TRUE]

\* what fetching and extracting one page can come to: the fetch raises
\* (lines 34-35), or extract_hackathons returns the records of the page
PageOutcomes ==
    {[kind |-> "fail", hs |-> <<>>]}
        \cup {[kind |-> "ok", hs |-> extract_hackathons(raw)] : raw \in RawPages}

\* the initial states of the scraper: nothing fetched, the clock at 1
InitScraper ==
    /\ RunIdle
    /\ ScrapeIdle
    /\ now = 1
    /\ file = NoFile
    /\ mgr = "none"
    /\ state = EmptyMap
    /\ probe = NoProbe
    /\ prev = NoProbe

\* get_active_hackathons(max_pages) is called
StartScrape ==
    /\ scrape.op = "none"
    /\ \E m \in 1..MaxPages : scrape' = [NoScrape EXCEPT !.op = "paging", !.max_pages = m]
    /\ UNCHANGED <<pages, links, now, file, mgr, state, harness, runVars>>

\* one iteration of for page in range(1, max_pages + 1)
FetchPage ==
    /\ scrape.op = "paging"
    /\ Len(pages) < scrape.max_pages
    /\ \E outcome \in PageOutcomes :
          /\ Len(scrape.all) + Len(outcome.hs) <= MaxCollected
          /\ pages' = Append(pages, outcome)
          /\ LET step == page_step(scrape.all, outcome)
             IN  scrape' = [scrape EXCEPT
                              !.all = step.all,
                              !.op = IF step.go /\ Len(pages') < scrape.max_pages
                                     THEN "paging" ELSE "collected"]
    /\ UNCHANGED <<links, now, file, mgr, state, harness, runVars>>

\* lines 267-282: filter, dedup, sort, return
FilterDedupSort ==
    /\ scrape.op = "collected"
    /\ scrape' = [scrape EXCEPT
                    !.op = "done",
                    !.unique = unique_active(scrape.all, now),
                    !.out = sort_by_deadline(unique_active(scrape.all, now))]
    /\ UNCHANGED <<pages, links, now, file, mgr, state, harness, runVars>>

\* the dedup loop run once more, on its own output
DedupAgain ==
    /\ scrape.op = "done"
    /\ scrape' = [scrape EXCEPT !.op = "again", !.again = dedup_by_url(scrape.unique)]
    /\ UNCHANGED <<pages, links, now, file, mgr, state, harness, runVars>>

NextScraper == StartScrape \/ FetchPage \/ FilterDedupSort \/ DedupAgain

SpecScraper == InitScraper /\ [][NextScraper]_vars

Returned == scrape.op \in {"done", "again"}

\* the first record of s, from position i on, that has URL u and a deadline
\* after t; 0 when there is none
FirstFuture(s, u, t) ==
    LET hits == {i \in 1..Len(s) : s[i].url = u /\ s[i].deadline > t}
    IN  IF hits = {} THEN 0 ELSE CHOOSE i \in hits : \A j \in hits : i <= j

\* C11: the dedup/filter step returns what keeping the first-seen record per
\* URL, then the records with a deadline strictly after now, then sorting
\* ascending by deadline returns.
C11_DedupThenFilter ==
    Returned => scrape.out = sort_by_deadline(future_only(dedup_by_url(scrape.all), now))

\* C11 as the code has it: the result holds, for each URL with a record whose
\* deadline is strictly after now, the first such record of that URL and no
\* other record; it is ascending by deadline, and records with equal
\* deadlines are in the order they were collected.
C11_FilterThenDedup ==
    Returned =>
        LET out == scrape.out
            all == scrape.all
        IN  /\ \A u \in URLs :
                  IF FirstFuture(all, u, now) = 0
                  THEN u \notin SeqUrls(out)
                  ELSE \E i \in 1..Len(out) : out[i] = all[FirstFuture(all, u, now)]
            /\ \A i, j \in 1..Len(out) : i # j => out[i].url # out[j].url
            /\ \A i, j \in 1..Len(out) :
                  i < j =>
                     \/ out[i].deadline < out[j].deadline
                     \/ /\ out[i].deadline = out[j].deadline
                        /\ FirstFuture(all, out[i].url, now) < FirstFuture(all, out[j].url, now)

\* a URL whose first-seen record is past and whose later duplicate is in the
\* future has been returned
C11_Witness ==
    /\ Returned
    /\ \E i, j \in 1..Len(scrape.all) :
          /\ i < j
          /\ scrape.all[i].url = scrape.all[j].url
          /\ scrape.all[i].deadline < now
          /\ scrape.all[j].deadline > now
          /\ \A k \in 1..(i - 1) : scrape.all[k].url # scrape.all[i].url
          /\ scrape.all[j].url \in SeqUrls(scrape.out)
    /\ Len(scrape.out) = 2

\* C12: the output of the dedup step never holds two records with one URL,
\* and the dedup step applied to its own output returns that output.
C12_DedupIdempotent ==
    /\ \A p \in 1..Len(pages) :
          \A i, j \in 1..Len(pages[p].hs) : i # j => pages[p].hs[i].url # pages[p].hs[j].url
    /\ Returned =>
          \A i, j \in 1..Len(scrape.unique) : i # j => scrape.unique[i].url # scrape.unique[j].url
    /\ scrape.op = "again" => scrape.again = scrape.unique

\* the dedup step dropped a duplicate, kept two records, and was run again
C12_Witness ==
    /\ scrape.op = "again"
    /\ Len(scrape.unique) < Len(future_only(scrape.all, now))
    /\ Len(scrape.again) = 2

RECURSIVE PagesRecords(_)
PagesRecords(ps) ==
    IF ps = <<>> THEN <<>> ELSE Head(ps).hs \o PagesRecords(Tail(ps))

\* C20: pages are fetched in order up to max_pages, up to the first page
\* without records or up to the first failed fetch, and the records of the
\* pages before it are what is filtered, sorted and returned.
C20_PaginationStops ==
    /\ scrape.op = "paging" =>
          /\ Len(pages) < scrape.max_pages
          /\ \A i \in 1..Len(pages) : pages[i].kind = "ok" /\ pages[i].hs # <<>>
    /\ scrape.op \in {"collected", "done", "again"} =>
          LET k == Len(pages)
          IN  /\ 1 <= k /\ k <= scrape.max_pages
              /\ \A i \in 1..(k - 1) : pages[i].kind = "ok" /\ pages[i].hs # <<>>
              /\ k = scrape.max_pages \/ pages[k].kind = "fail" \/ pages[k].hs = <<>>
              /\ scrape.all = PagesRecords(pages)
    /\ Returned =>
          /\ \A u \in URLs :
                u \in SeqUrls(scrape.out) <=>
                   \E p \in 1..Len(pages) : \E i \in 1..Len(pages[p].hs) :
                      pages[p].hs[i].url = u /\ pages[p].hs[i].deadline > now
          /\ \A i, j \in 1..Len(scrape.out) :
                i < j => scrape.out[i].deadline <= scrape.out[j].deadline

\* a fetch failed before max_pages was reached, after a page with future
\* records, and those records were returned
C20_Witness ==
    /\ Returned
    /\ Len(pages) >= 2
    /\ Len(pages) < scrape.max_pages
    /\ pages[Len(pages)].kind = "fail"
    /\ scrape.out # <<>>

----------------------------------------------------------------------------
(* Direct calls of extract_hackathons on one page *)

MaxLinks == 3

InitExtract ==
    /\ RunIdle
    /\ pages = <<>>
    /\ scrape = NoScrape
    /\ links \in SeqsUpTo(ChallengeLinks, MaxLinks)
    /\ now = 1
    /\ file = NoFile
    /\ mgr = "none"
    /\ state = EmptyMap
    /\ probe = NoProbe
    /\ prev = NoProbe

\* extract_hackathons(html)
ExtractHackathons ==
    /\ scrape.op = "none"
    /\ scrape' = [NoScrape EXCEPT !.op = "extracted", !.out = extract_hackathons(links)]
    /\ UNCHANGED <<pages, links, now, file, mgr, state, harness, runVars>>

NextExtract == ExtractHackathons

SpecExtract == InitExtract /\ [][NextExtract]_vars

\* the first link with URL u that parses to a record with a deadline; 0 when
\* there is none
FirstRecord(u) ==
    LET hits == {i \in 1..Len(links) : links[i].kind = "record" /\ links[i].url = u}
    IN  IF hits = {} THEN 0 ELSE CHOOSE i \in hits : \A j \in hits : i <= j

\* C21: a link whose parsing fails or that has no deadline is skipped without
\* effect on the others: the output holds, for every URL that some link
\* parses with a deadline, the record of the first such link, and nothing
\* else, in document order.
C21_SkippedLinksLeaveOthers ==
    scrape.op = "extracted" =>
        LET out == scrape.out
        IN  /\ \A u \in URLs :
                  IF FirstRecord(u) = 0
                  THEN u \notin SeqUrls(out)
                  ELSE \E i \in 1..Len(out) :
                          /\ out[i].url = u
                          /\ out[i].deadline = links[FirstRecord(u)].deadline
            /\ \A i, j \in 1..Len(out) : i # j => out[i].url # out[j].url
            /\ \A i, j \in 1..Len(out) :
                  i < j => FirstRecord(out[i].url) < FirstRecord(out[j].url)

\* a page whose first link raised and whose second had no deadline gave the
\* record of its third link
C21_Witness ==
    /\ scrape.op = "extracted"
    /\ Len(links) = 3
    /\ links[1].kind = "raises"
    /\ links[2].kind = "nodeadline"
    /\ links[3].kind = "record"
    /\ links[3].url = links[2].url
    /\ scrape.out = <<[url |-> links[3].url, deadline |-> links[3].deadline]>>

----------------------------------------------------------------------------
(* One hackathon, scored by run after run as the clock advances *)

\* the deadlines of the hackathon: 170h, 48.5h and 2h after the first run
EscalationDeadlines ==
    {MaxProbeHours * TicksPerHour, MEDIUM_THRESHOLD * TicksPerHour + 1, 2 * TicksPerHour}

\* IGNORE, LOW, MEDIUM, HIGH, CRITICAL in this order
LevelRank(l) ==
    CASE l = "IGNORE" -> 0
      [] l = "LOW" -> 1
      [] l = "MEDIUM" -> 2
      [] l = "HIGH" -> 3
      [] l = "CRITICAL" -> 4

InitEscalation ==
    /\ RunIdle
    /\ ScrapeIdle
    /\ now = 0
    /\ file = NoFile
    /\ mgr = "none"
    /\ state = EmptyMap
    /\ prev = NoProbe
    /\ \E d \in EscalationDeadlines :
          probe = [NoProbe EXCEPT !.op = "input", !.deadline = d]

\* one run scores the hackathon (the loop body of process_hackathons); prev
\* keeps the score of the first run
ScoreRun ==
    /\ probe.op \in {"input", "score"}
    /\ LET r == score_one([url |-> probe.url, name |-> Name(probe.url),
                           deadline |-> probe.deadline, prize_amount |-> 0], now)
       IN  probe' = [probe EXCEPT !.op = "score", !.t = now,
                                  !.hours = r.hours_remaining,
                                  !.level = r.alert_level,
                                  !.interval = r.notification_interval]
    /\ prev' = IF probe.op = "input" THEN probe' ELSE prev
    /\ UNCHANGED <<scrapeVars, now, file, mgr, state, runVars>>

\* time passes between two runs, up to an hour past the deadline
TickRun ==
    /\ probe.op = "score"
    /\ now < probe.deadline + TicksPerHour
    /\ now' = now + 1
    /\ UNCHANGED <<scrapeVars, file, mgr, state, probe, prev, runVars>>

NextEscalation == ScoreRun \/ TickRun

SpecEscalation == InitEscalation /\ [][NextEscalation]_vars

\* C22: for a fixed deadline the alert level of a run is never below the
\* level of the run before it in the order IGNORE, LOW, MEDIUM, HIGH,
\* CRITICAL, and its notification interval is never longer.
C22_NeverDeEscalates ==
    [][(probe.op = "score" /\ probe'.op = "score" /\ ScoreRun) =>
          /\ LevelRank(probe'.level) >= LevelRank(probe.level)
          /\ probe'.interval <= probe.interval
          /\ probe'.hours <= probe.hours]_vars

\* the first run found the hackathon IGNORE with the interval 168h, a later
\* run finds it CRITICAL with the interval 1h
C22_Witness ==
    /\ probe.op = "score"
    /\ prev.level = "IGNORE"
    /\ prev.interval = INTERVALS["IGNORE"]
    /\ probe.level = "CRITICAL"
    /\ probe.interval = INTERVALS["CRITICAL"]
    /\ probe.t > prev.t
    /\ probe.deadline = prev.deadline

\* a run of main has returned before Step 4
EndedEarly == pc = "done" /\ cfg.config = "ok" /\ to_notify = <<>>

\* C24: a run that ends early (nothing scraped, nothing below the IGNORE
\* band, or every scored record suppressed) has sent no message and left the
\* state file as it was; the file is only written, and cleanup_old_entries
\* only runs, in a run that handed records to the notifier.
C24_EarlyEndNoEffect ==
    /\ EndedEarly =>
          /\ sends = <<>>
          /\ log = <<>>
          /\ file = file0
    /\ pc \in {"sent", "updated"} => to_notify # <<>> /\ Len(sends) = Len(to_notify)
    /\ (pc # "idle" /\ file # file0) => to_notify # <<>> /\ sends # <<>>

\* every scored record was suppressed and the run has returned, leaving in
\* the file an entry that cleanup_old_entries would have removed
C24_Witness ==
    /\ EndedEarly
    /\ urgent # <<>>
    /\ mgr = "ready"
    /\ cleanup_to_remove(state, RETENTION_DAYS, now) # {}
    /\ file = file0
    /\ file.kind = "json"

----------------------------------------------------------------------------
(* main.py: runs that follow a run with a failed send *)

\* the state file before the first run: none, or u1 notified an hour ago
RetryInitFiles ==
    {NoFile,
     [kind |-> "json",
      data |-> [u \in {"u1"} |-> [kind |-> "ok", at |-> 0 - TicksPerHour,
                                  level |-> "LOW", name |-> Name(u)]]]}

InitRetry ==
    /\ RunIdle
    /\ ScrapeIdle
    /\ now = 0
    /\ file \in RetryInitFiles
    /\ mgr = "none"
    /\ state = EmptyMap
    /\ probe = NoProbe
    /\ prev = NoProbe

NextRetry ==
    \/ BeginLive
    \/ ComputeUrgency
    \/ FilterState
    \/ SendTracked
    \/ UpdateState
    \/ Cleanup
    \/ Finish
    \/ Tick

SpecRetry == InitRetry /\ [][NextRetry]_vars

ToNotifyUrls == {to_notify[i].url : i \in 1..Len(to_notify)}

\* C23: Step 5 of a live, non-forced run records every record handed to the
\* notifier, with the time of the run, whether its send succeeded or failed;
\* and the state filter of a later non-forced run does not hand on a record
\* whose last send failed less than the record's notification interval ago.
C23_FailedSendRecorded ==
    [][/\ (pc = "sent" /\ pc' = "updated" /\ ~cfg.dry_run /\ ~cfg.force) =>
             \A i \in 1..Len(sends) :
                 /\ sends[i].url \in DOMAIN state'
                 /\ state'[sends[i].url] = [kind |-> "ok", at |-> now,
                                            level |-> sends[i].level,
                                            name |-> Name(sends[i].url)]
                 /\ file'.kind = "json"
                 /\ file'.data = state'
       /\ (pc = "scored" /\ pc' \in {"filtered", "done"} /\ ~cfg.force) =>
             \A i \in 1..Len(urgent) :
                 (/\ failedAt[urgent[i].url] # Never
                  /\ now - failedAt[urgent[i].url]
                        < urgent[i].notification_interval * TicksPerHour)
                    => urgent[i].url \notin {to_notify'[k].url : k \in 1..Len(to_notify')}]_vars

\* a run after a failed send: the record is urgent again, its interval has
\* not elapsed since the failure, and the state filter has dropped it
C23_Witness ==
    /\ pc \in {"filtered", "done"}
    /\ mgr = "ready"
    /\ ~cfg.force
    /\ \E i \in 1..Len(urgent) :
          /\ failedAt[urgent[i].url] # Never
          /\ failedAt[urgent[i].url] < now
          /\ now - failedAt[urgent[i].url] < urgent[i].notification_interval * TicksPerHour
          /\ urgent[i].url \notin ToNotifyUrls

====
